---- MODULE Spec2Model ----
(***************************************************************************)
(* Model of backend/llm.py: the five streaming calls                       *)
(*   stream_openai_response, stream_claude_response,                       *)
(*   stream_claude_response_aws_bedrock, stream_claude_response_native,    *)
(*   stream_claude_response_native_aws_bedrock.                            *)
(*                                                                         *)
(* A Python str is a sequence of tokens (so + is \o and "" is <<>>), a     *)
(* dict is a record, a list of content-part dicts is a sequence of heap    *)
(* addresses: dict(message) copies a message shallowly, so the part dicts  *)
(* of the caller's list and of the translated list are the same objects.   *)
(* One call runs per behaviour: Init draws the function and its arguments, *)
(* the transport chooses its events and failures step by step.             *)
(***************************************************************************)
EXTENDS Naturals, Sequences, FiniteSets, TLC

VARIABLES
    fn,               \* the function being called
    include_thinking, \* argument of the two multi-pass functions
    input,            \* the caller's message list as values, at call time
    messages,         \* the caller's message list (roles, contents by reference)
    heap,             \* the content-part dicts, by address
    system_prompt,    \* local: the first message's content
    claude_messages,  \* local: the translated turn list (shallow copies)
    requests,         \* streaming requests received by the provider, in order
    quota,            \* events the transport may still emit on the open stream
    emitted,          \* events emitted by the transport, one sequence per request
    sinkLog,          \* increments passed to callback, in call order
    outstanding,      \* callback invocations that have not returned yet
    full_response,    \* full_response / final_message / response_text
    full_stream,      \* multi-pass: every pass's text, concatenated
    current_pass_num, \* multi-pass loop counter
    response,         \* multi-pass: "None" until a pass has set it
    retval,           \* the value returned
    logs,             \* lines printed by the except clauses
    exc,              \* the exception raised inside the call, "none" if none
    pc                \* position of the call

vars == <<fn, include_thinking, input, messages, heap, system_prompt,
          claude_messages, requests, quota, emitted, sinkLog, outstanding,
          full_response, full_stream, current_pass_num, response, retval,
          logs, exc, pc>>

----------------------------------------------------------------------------
(* Bounds *)

\* turns after the system message (single-pass) / turns passed (multi-pass)
MaxTurns == 2
\* content parts in the whole caller's list
MaxParts == 2
\* events the transport emits per stream, for calls whose input is plain text
MaxChunks == 2
\* events the transport emits per stream, for calls whose input has content parts
ShortStream == 1

----------------------------------------------------------------------------
(* Program constants *)

max_passes == 2

prefix == <<"<thinking>">>

FollowUp ==
    <<"You've done a good job with a first draft. Improve this further based on the original instructions so that the app is fully functional and looks like the original video of the app we're trying to replicate.">>

OPENAI == "stream_openai_response"
CLAUDE == "stream_claude_response"
BEDROCK == "stream_claude_response_aws_bedrock"
NATIVE == "stream_claude_response_native"
NATIVE_BEDROCK == "stream_claude_response_native_aws_bedrock"

SinglePass == {OPENAI, CLAUDE, BEDROCK}
MultiPass == {NATIVE, NATIVE_BEDROCK}
Translating == {CLAUDE, BEDROCK}
Gateway == {BEDROCK, NATIVE_BEDROCK}
Fns == SinglePass \cup MultiPass

----------------------------------------------------------------------------
(* Strings *)

Last(s) == s[Len(s)]

\* the first position of token d in s, 0 when absent
RECURSIVE IndexOf(_, _, _)
IndexOf(s, d, i) ==
    IF i > Len(s) THEN 0
    ELSE IF s[i] = d THEN i
    ELSE IndexOf(s, d, i + 1)

\* str.split(d): the pieces between the occurrences of d
RECURSIVE Split(_, _)
Split(s, d) ==
    LET i == IndexOf(s, d, 1) IN
    IF i = 0 THEN <<s>>
    ELSE <<SubSeq(s, 1, i - 1)>> \o Split(SubSeq(s, i + 1, Len(s)), d)

\* "".join(ss)
RECURSIVE Concat(_)
Concat(ss) == IF ss = <<>> THEN <<>> ELSE Head(ss) \o Concat(Tail(ss))

SeqsUpTo(S, k) == UNION {[1..m -> S] : m \in 1..k}

----------------------------------------------------------------------------
(* Messages and content parts *)

StrContent(t) == [kind |-> "str", text |-> t, parts |-> <<>>]
ListContent(ps) == [kind |-> "list", text |-> <<>>, parts |-> ps]

TextPart(t) ==
    [type |-> "text", text |-> t, has_image_url |-> FALSE, url |-> <<>>,
     has_source |-> FALSE, media_type |-> <<>>, data |-> <<>>]

ImageUrlPart(u) ==
    [type |-> "image_url", text |-> <<>>, has_image_url |-> TRUE, url |-> u,
     has_source |-> FALSE, media_type |-> <<>>, data |-> <<>>]

\* data URLs: data:<media-type>;base64,<payload>
MediaTypes == {<<"image/png">>, <<"image/jpeg">>}
Payloads == {<<"AAAA">>}
DataUrl(colon, mt, semi, comma, payload) ==
    <<"data">> \o colon \o mt \o semi \o <<"base64">> \o comma \o payload

WellFormedUrls ==
    {DataUrl(<<":">>, mt, <<";">>, <<",">>, p) : mt \in MediaTypes, p \in Payloads}

\* the same with the colon, the semicolon or the comma missing
MalformedUrls ==
    {DataUrl(<<>>, <<"image/png">>, <<";">>, <<",">>, p) : p \in Payloads}
    \cup {DataUrl(<<":">>, <<"image/png">>, <<>>, <<",">>, p) : p \in Payloads}
    \cup {DataUrl(<<":">>, <<"image/png">>, <<";">>, <<>>, p) : p \in Payloads}

Urls == WellFormedUrls \cup MalformedUrls

PartInputs == {TextPart(<<"describe">>)} \cup {ImageUrlPart(u) : u \in Urls}

ContentsUpTo(k) ==
    {StrContent(<<"text">>)} \cup {ListContent(ps) : ps \in SeqsUpTo(PartInputs, k)}

\* the sequences of n contents holding at most k parts in all
RECURSIVE TurnContents(_, _)
TurnContents(n, k) ==
    IF n = 0 THEN {<<>>}
    ELSE UNION {{<<c>> \o rest : rest \in TurnContents(n - 1, k - Len(c.parts))} :
                c \in ContentsUpTo(k)}

RoleOf(i) == IF i % 2 = 1 THEN "user" ELSE "assistant"

\* a turn's text carries its position, so that turns are told apart
Tagged(c, i) == IF c.kind = "str" THEN StrContent(<<ToString(i)>>) ELSE c

Turns(cs) == [i \in 1..Len(cs) |-> [role |-> RoleOf(i), content |-> Tagged(cs[i], i)]]

SystemMessage == [role |-> "system", content |-> StrContent(<<"system prompt">>)]

\* the message lists a caller passes to f
Inputs(f) ==
    IF f \in Translating
    THEN {<<SystemMessage>> \o Turns(cs) :
          cs \in UNION {TurnContents(n, MaxParts) : n \in 0..MaxTurns}}
    ELSE {Turns([i \in 1..n |-> StrContent(<<"text">>)]) : n \in 1..MaxTurns}

HasParts(ms) == \E i \in 1..Len(ms) : ms[i].content.kind = "list"

\* the heap and the list of references that hold the values ms
Addrs(ms) ==
    UNION {{<<i, j>> : j \in 1..Len(ms[i].content.parts)} : i \in 1..Len(ms)}

HeapOf(ms) == [a \in Addrs(ms) |-> ms[a[1]].content.parts[a[2]]]

RefContent(c, i) ==
    [kind |-> c.kind, text |-> c.text, refs |-> [j \in 1..Len(c.parts) |-> <<i, j>>]]

RefsOf(ms) ==
    [i \in 1..Len(ms) |-> [role |-> ms[i].role, content |-> RefContent(ms[i].content, i)]]

\* the values a list of references holds, given the heap
ValueContent(c, h) ==
    [kind |-> c.kind, text |-> c.text, parts |-> [j \in 1..Len(c.refs) |-> h[c.refs[j]]]]

Values(ms, h) ==
    [i \in 1..Len(ms) |-> [role |-> ms[i].role, content |-> ValueContent(ms[i].content, h)]]

----------------------------------------------------------------------------
(* Request translation: OpenAI messages to Claude messages *)

\* system_prompt = messages[0].get("content")
SystemPromptOf(ms) == ms[1].content.text

\* mutant: the slice [1:] forgotten
ShallowCopiesOfAll(ms) == ms

\* claude_messages = [dict(message) for message in messages[1:]]: new message
\* dicts whose "content" is the caller's own list object
ShallowCopies(ms) == Tail(ms)

\* image_data_url.split(";")[0].split(":"), of which [1] is the media type
MediaPieces(url) == Split(Split(url, ";")[1], ":")

\* mutant: the payload split on the wrong delimiter
DataPiecesAtSemicolon(url) == Split(url, ";")

\* image_data_url.split(","), of which [1] is the base64 data
DataPieces(url) == Split(url, ",")

\* both subscripts [1] exist (no IndexError)
ParseOk(url) == Len(MediaPieces(url)) >= 2 /\ Len(DataPieces(url)) >= 2

\* the loop body for one content part, at address a of heap h
TranslatePart(h, a) ==
    IF h[a].type # "image_url" THEN [heap |-> h, ok |-> TRUE]
    ELSE LET typed == [h EXCEPT ![a].type = "image"]
             url == h[a].url
         IN  IF ~ParseOk(url) THEN [heap |-> typed, ok |-> FALSE]
             ELSE [heap |-> [typed EXCEPT ![a].has_image_url = FALSE,
                                          ![a].url = <<>>,
                                          ![a].has_source = TRUE,
                                          ![a].media_type = MediaPieces(url)[2],
                                          ![a].data = DataPieces(url)[2]],
                   ok |-> TRUE]

\* the parts the two nested loops visit, in order
PartAddrs(cms) ==
    Concat([i \in 1..Len(cms) |->
              IF cms[i].content.kind = "list" THEN cms[i].content.refs ELSE <<>>])

\* the two nested loops, stopped by the first IndexError
RECURSIVE TranslateAll(_, _)
TranslateAll(h, as) ==
    IF as = <<>> THEN [heap |-> h, ok |-> TRUE]
    ELSE LET r == TranslatePart(h, Head(as)) IN
         IF r.ok THEN TranslateAll(r.heap, Tail(as)) ELSE r

----------------------------------------------------------------------------
(* The transport *)

Texts == {<<"a">>, <<"b">>}

Event(k, t) == [kind |-> k, text |-> t]

\* what one stream may yield: ChatCompletionChunk with a content or None;
\* the SDK's text_stream items; Bedrock events with a content_block_delta
\* chunk, a chunk of another type, or no chunk
Events(f) ==
    {Event("text", t) : t \in Texts}
    \cup (IF f = OPENAI THEN {Event("none", <<>>)} ELSE {})
    \cup (IF f \in Gateway THEN {Event("other", <<>>), Event("nochunk", <<>>)} ELSE {})

Failures == {"ClientError", "Error"}

\* the text the provider generated on one stream
StreamText(evs) == Concat([i \in 1..Len(evs) |-> evs[i].text])

\* stream.get_final_message().content[0].text: the SDK's accumulated snapshot
FinalMessageText(evs) == StreamText(evs)

\* the increment decoded from one event, if any
Decode(f, ev) ==
    IF f = OPENAI
    THEN [yields |-> TRUE, text |-> IF ev.kind = "none" THEN <<>> ELSE ev.text]
    ELSE IF f \in Gateway THEN [yields |-> ev.kind = "text", text |-> ev.text]
    ELSE [yields |-> TRUE, text |-> ev.text]

----------------------------------------------------------------------------
(* The call *)

None == [kind |-> "None", text |-> <<>>]
Str(t) == [kind |-> "str", text |-> t]

NoResponse == [set |-> FALSE, text |-> <<>>]

Message(r, t) == [role |-> r, content |-> [kind |-> "str", text |-> t, refs |-> <<>>]]

TypeOK ==
    /\ fn \in Fns
    /\ include_thinking \in BOOLEAN
    /\ pc \in {"start", "request", "iter", "in_sink", "returned", "raised"}
    /\ outstanding \in Nat
    /\ exc \in {"none", "IndexError"} \cup Failures
    /\ quota \in 0..(MaxChunks + ShortStream)
    /\ current_pass_num \in 1..(max_passes + 1)
    /\ retval.kind \in {"None", "str"}
    /\ Len(emitted) = Len(requests)

Init ==
    /\ fn \in Fns
    /\ include_thinking \in (IF fn \in MultiPass THEN BOOLEAN ELSE {FALSE})
    /\ input \in Inputs(fn)
    /\ messages = RefsOf(input)
    /\ heap = HeapOf(input)
    /\ system_prompt = IF fn \in MultiPass THEN <<"system prompt">> ELSE <<>>
    /\ claude_messages = <<>>
    /\ requests = <<>>
    /\ quota = 0
    /\ emitted = <<>>
    /\ sinkLog = <<>>
    /\ outstanding = 0
    /\ full_response = <<>>
    /\ full_stream = <<>>
    /\ current_pass_num = 1
    /\ response = NoResponse
    /\ retval = None
    /\ logs = <<>>
    /\ exc = "none"
    /\ pc = "start"

\* the except clauses of the two gateway functions; elsewhere the failure
\* propagates unchanged
Fail(e) ==
    /\ exc' = e
    /\ IF fn \in Gateway /\ e = "ClientError"
       THEN /\ logs' = Append(logs, "A client error occurred")
            /\ retval' = None
            /\ pc' = "returned"
       ELSE /\ logs' = IF fn \in Gateway THEN Append(logs, "An error occurred!")
                       ELSE logs
            /\ retval' = retval
            /\ pc' = "raised"

\* the code before the first request: the translation (single-pass Claude
\* calls), the parameters (OpenAI), the loop's initialisation (multi-pass)
Prepare ==
    /\ pc = "start"
    /\ IF fn \in Translating
       THEN LET cms == ShallowCopies(messages)
                r == TranslateAll(heap, PartAddrs(cms))
            IN  /\ system_prompt' = SystemPromptOf(messages)
                /\ claude_messages' = cms
                /\ heap' = r.heap
                /\ IF r.ok
                   THEN /\ pc' = "request"
                        /\ UNCHANGED <<logs, retval, exc>>
                   ELSE Fail("IndexError")
       ELSE /\ pc' = "request"
            /\ UNCHANGED <<system_prompt, claude_messages, heap, logs, retval, exc>>
    /\ UNCHANGED <<fn, include_thinking, input, messages, requests, quota, emitted,
                   sinkLog, outstanding, full_response, full_stream,
                   current_pass_num, response>>

\* messages + [{"role": "assistant", "content": prefix}] if include_thinking
messages_to_send ==
    IF include_thinking THEN messages \o <<Message("assistant", prefix)>> ELSE messages

\* what the provider is sent
RequestOf ==
    IF fn = OPENAI
    THEN [has_system |-> FALSE, system |-> <<>>, messages |-> Values(messages, heap)]
    ELSE IF fn \in Translating
    THEN [has_system |-> TRUE, system |-> system_prompt,
          messages |-> Values(claude_messages, heap)]
    ELSE [has_system |-> TRUE, system |-> system_prompt,
          messages |-> Values(messages_to_send, heap)]

\* events the transport yields at most on a stream it opens; the stream loops
\* never read the messages, so inputs with content parts get the short bound
StreamBound == IF HasParts(input) THEN ShortStream ELSE MaxChunks

\* the streaming request is issued; the provider opens a stream or refuses
Request ==
    /\ pc = "request"
    /\ fn \in MultiPass => current_pass_num <= max_passes
    /\ current_pass_num' = IF fn \in MultiPass THEN current_pass_num + 1
                           ELSE current_pass_num
    /\ requests' = Append(requests, RequestOf)
    /\ emitted' = Append(emitted, <<>>)
    /\ \E outcome \in {"ok"} \cup Failures :
          IF outcome = "ok"
          THEN /\ quota' = StreamBound
               /\ full_response' = <<>>
               /\ response' = IF fn = NATIVE_BEDROCK THEN [set |-> TRUE, text |-> <<>>]
                              ELSE response
               /\ pc' = "iter"
               /\ UNCHANGED <<logs, retval, exc>>
          ELSE /\ Fail(outcome)
               /\ UNCHANGED <<quota, full_response, response>>
    /\ UNCHANGED <<fn, include_thinking, input, messages, heap, system_prompt,
                   claude_messages, sinkLog, outstanding, full_stream>>

\* mutant: callback(text) without await, the loop goes on at once
InvokeSinkNotAwaited(text) ==
    /\ sinkLog' = Append(sinkLog, text)
    /\ outstanding' = outstanding + 1
    /\ pc' = "iter"

\* await callback(text): the call is made; control is with the callback
InvokeSink(text) ==
    /\ sinkLog' = Append(sinkLog, text)
    /\ outstanding' = outstanding + 1
    /\ pc' = "in_sink"

\* the stream yields an event; its increment, if it has one, is accumulated
\* where the function accumulates before the callback, and the callback called
NextChunk ==
    /\ pc = "iter"
    /\ quota > 0
    /\ \E ev \in Events(fn) :
          LET d == Decode(fn, ev) IN
          /\ emitted' = [emitted EXCEPT ![Len(emitted)] = Append(@, ev)]
          /\ quota' = quota - 1
          /\ IF d.yields
             THEN /\ InvokeSink(d.text)
                  /\ full_response' = IF fn \in {OPENAI, NATIVE_BEDROCK}
                                      THEN full_response \o d.text ELSE full_response
                  /\ full_stream' = IF fn \in MultiPass
                                    THEN full_stream \o d.text ELSE full_stream
             ELSE UNCHANGED <<sinkLog, outstanding, pc, full_response, full_stream>>
    /\ UNCHANGED <<fn, include_thinking, input, messages, heap, system_prompt,
                   claude_messages, requests, current_pass_num, response, retval,
                   logs, exc>>

\* the callback returns; final_message += text follows it in the Bedrock call
SinkReturn ==
    /\ pc = "in_sink"
    /\ outstanding' = outstanding - 1
    /\ full_response' = IF fn = BEDROCK
                        THEN full_response \o Last(Last(emitted)).text
                        ELSE full_response
    /\ pc' = "iter"
    /\ UNCHANGED <<fn, include_thinking, input, messages, heap, system_prompt,
                   claude_messages, requests, quota, emitted, sinkLog, full_stream,
                   current_pass_num, response, retval, logs, exc>>

\* the transport fails while the stream is read
StreamFail ==
    /\ pc = "iter"
    /\ \E e \in Failures : Fail(e)
    /\ UNCHANGED <<fn, include_thinking, input, messages, heap, system_prompt,
                   claude_messages, requests, quota, emitted, sinkLog, outstanding,
                   full_response, full_stream, current_pass_num, response>>

\* mutant: the gateway loop echoes full_stream instead of response_text
ResponseTextWholeStream ==
    IF fn \in {CLAUDE, NATIVE} THEN FinalMessageText(Last(emitted))
    ELSE IF fn = NATIVE_BEDROCK THEN full_stream
    ELSE full_response

\* the text a function takes as the finished pass's
ResponseText ==
    IF fn \in {CLAUDE, NATIVE} THEN FinalMessageText(Last(emitted)) ELSE full_response

\* mutant: the two entries appended in the other order
NextPassMessagesSwapped(ms, text) ==
    ms \o <<Message("user", FollowUp), Message("assistant", prefix \o text)>>

\* mutant: the entries appended to the list that was sent
NextPassMessagesOnSent(ms, text) ==
    messages_to_send \o <<Message("assistant", prefix \o text), Message("user", FollowUp)>>

\* messages += [assistant turn, user follow-up]
NextPassMessages(ms, text) ==
    ms \o <<Message("assistant", prefix \o text), Message("user", FollowUp)>>

\* what stream_claude_response_native_aws_bedrock returns after the loop
NativeBedrockResult == full_stream

\* the stream is exhausted: a single-pass call returns; a multi-pass call
\* extends messages and goes round the loop, or leaves it and returns
StreamEnd ==
    /\ pc = "iter"
    /\ IF fn \in SinglePass
       THEN /\ retval' = Str(ResponseText)
            /\ pc' = "returned"
            /\ UNCHANGED <<messages, response, exc, logs>>
       ELSE LET got == IF fn = NATIVE THEN [set |-> TRUE, text |-> ResponseText]
                       ELSE response
            IN  /\ response' = got
                /\ messages' = NextPassMessages(messages, ResponseText)
                /\ IF current_pass_num <= max_passes
                   THEN /\ pc' = "request"
                        /\ UNCHANGED <<retval, exc, logs>>
                   ELSE IF ~got.set
                   THEN Fail("Error")
                   ELSE /\ pc' = "returned"
                        /\ retval' = Str(IF fn = NATIVE THEN got.text
                                         ELSE NativeBedrockResult)
                        /\ UNCHANGED <<exc, logs>>
    /\ UNCHANGED <<fn, include_thinking, input, heap, system_prompt,
                   claude_messages, requests, quota, emitted, sinkLog, outstanding,
                   full_response, full_stream, current_pass_num>>

Next ==
    \/ Prepare
    \/ Request
    \/ NextChunk
    \/ SinkReturn
    \/ StreamFail
    \/ StreamEnd

Spec == Init /\ [][Next]_vars

----------------------------------------------------------------------------
(* What the claims speak of *)

\* a message as a value
ValMessage(r, t) == [role |-> r, content |-> StrContent(t)]

\* the text the provider generated on pass k
PassText(k) == StreamText(emitted[k])

\* every event the transport has emitted, in order
AllEvents == Concat(emitted)

\* the increments the events carry: every OpenAI chunk and every text item
\* carries one, a Bedrock event only if it is a content_block_delta chunk
Increments(evs) ==
    LET carries(ev) == ev.kind \in {"text", "none"}
        kept == SelectSeq(evs, carries)
    IN  [i \in 1..Len(kept) |-> kept[i].text]

\* passes whose stream was read to its end
CompletedPasses ==
    IF pc \in {"iter", "in_sink"} \/ exc # "none" THEN Len(requests) - 1
    ELSE Len(requests)

BothPassesComplete ==
    fn \in MultiPass /\ pc = "returned" /\ exc = "none" /\ Len(requests) = max_passes

\* the two entries appended after pass k
PassEntries(k) ==
    <<ValMessage("assistant", prefix \o PassText(k)), ValMessage("user", FollowUp)>>

\* the caller's list after n completed passes
RECURSIVE Persisted(_)
Persisted(n) == IF n = 0 THEN input ELSE Persisted(n - 1) \o PassEntries(n)

\* the provisional turn of a request
Provisional == IF include_thinking THEN <<ValMessage("assistant", prefix)>> ELSE <<>>

\* the image parts of the caller's input
ImageAddrs == {a \in Addrs(input) : input[a[1]].content.parts[a[2]].type = "image_url"}

InputUrl(a) == input[a[1]].content.parts[a[2]].url

Has(s, d) == \E i \in 1..Len(s) : s[i] = d

\* C1: in a single-pass call that returns normally, the concatenation of the
\* increments passed to callback, in call order, is the string returned.
C1_SinkConcatIsReturned ==
    (fn \in SinglePass /\ pc = "returned") => retval = Str(Concat(sinkLog))

\* C2: a multi-pass call that completes both passes returns exactly the text
\* of the second pass.
C2_ReturnsSecondPass ==
    BothPassesComplete => retval = Str(PassText(2))

\* C3 as stated: after both passes the caller's list is the original turns
\* followed by the two entries of pass 1 and nothing else.
C3_OnlyPassOneAppended ==
    BothPassesComplete => Values(messages, heap) = input \o PassEntries(1)

\* C3 amended: after both passes the caller's list is the original turns
\* followed by the two entries of pass 1 and then the two entries of pass 2.
C3_BothPassesAppended ==
    BothPassesComplete =>
        Values(messages, heap) = input \o PassEntries(1) \o PassEntries(2)

C3_Witness ==
    /\ BothPassesComplete
    /\ PassText(1) = <<"a">>
    /\ PassText(2) = <<"b">>

\* C4: a client error signalled to a gateway call is logged and raised to
\* the caller; the call never returns normally after it and never retries.
C4_ClientErrorIsRaised ==
    (fn \in Gateway /\ exc = "ClientError") => (pc = "raised" /\ logs # <<>>)

C6_SinkInArrivalOrder ==
    /\ sinkLog = Increments(AllEvents)
    /\ outstanding <= 1
    /\ outstanding = 1 <=> pc = "in_sink"

C6_Witness ==
    /\ pc = "in_sink"
    /\ Len(sinkLog) >= 2
    /\ sinkLog[1] # sinkLog[2]

\* C7: with include_thinking, each request is the caller's list as it then
\* stands plus one trailing assistant turn "<thinking>", and the caller's
\* list holds, in every state, only the original turns and the two entries
\* of each completed pass.
C7_ProvisionalTurnNotPersisted ==
    (fn \in MultiPass /\ include_thinking) =>
        /\ \A k \in 1..Len(requests) :
              requests[k].messages
                  = Persisted(k - 1) \o <<ValMessage("assistant", prefix)>>
        /\ Values(messages, heap) = Persisted(CompletedPasses)

C7_Witness ==
    /\ fn \in MultiPass
    /\ include_thinking
    /\ Len(requests) = 2
    /\ pc = "in_sink"

\* C8: the request of a translating call carries one system field, the first
\* message's content, and as turns the remaining messages in their order:
\* one fewer than the input, same roles, same texts, as many parts each;
\* the first message is not among them.
C8_SystemSplitFromTurns ==
    (fn \in Translating /\ Len(requests) >= 1) =>
        LET req == requests[1] IN
        /\ req.has_system
        /\ req.system = input[1].content.text
        /\ Len(req.messages) = Len(input) - 1
        /\ \A i \in 1..Len(req.messages) :
              /\ req.messages[i].role = input[i + 1].role
              /\ req.messages[i].content.kind = input[i + 1].content.kind
              /\ req.messages[i].content.text = input[i + 1].content.text
              /\ Len(req.messages[i].content.parts) = Len(input[i + 1].content.parts)
              /\ req.messages[i] # input[1]

C8_Witness ==
    /\ fn \in Translating
    /\ Len(requests) = 1
    /\ Len(input) = 3
    /\ input[2].content.kind = "str"
    /\ input[3].content.kind = "list"

\* C9: an image part with the data URL data:<media-type>;base64,<payload> is
\* sent as a base64 source with that media type and that payload; if an image
\* part's URL has no comma or no colon the call raises the error of the
\* failed parse, no request is issued and callback is never called.
C9_DataUrlTranslation ==
    fn \in Translating =>
        /\ Len(requests) >= 1 =>
              \A a \in ImageAddrs : \A mt \in MediaTypes, p \in Payloads :
                  InputUrl(a) = DataUrl(<<":">>, mt, <<";">>, <<",">>, p) =>
                      LET sent == requests[1].messages[a[1] - 1].content.parts[a[2]]
                      IN  /\ sent.type = "image"
                          /\ sent.has_source
                          /\ sent.media_type = mt
                          /\ sent.data = p
                          /\ ~sent.has_image_url
        /\ (\E a \in ImageAddrs : ~Has(InputUrl(a), ",") \/ ~Has(InputUrl(a), ":")) =>
              /\ requests = <<>>
              /\ sinkLog = <<>>
              /\ pc \in {"start", "raised"}
              /\ pc = "raised" => exc = "IndexError"

C9_Witness ==
    /\ fn \in Translating
    /\ pc = "raised"
    /\ exc = "IndexError"
    /\ \E a \in ImageAddrs : heap[a].has_source /\ heap[a].data \in Payloads

\* C10: a single-pass translating call leaves the caller's messages, content
\* parts included, as they were before the call.
C10_CallerMessagesUnchanged ==
    (fn \in Translating /\ pc = "returned" /\ exc = "none") =>
        Values(messages, heap) = input

====
